---- MODULE Spec2Model ----
(***************************************************************************)
(* Transaction lifecycle of core.Client (src/core/tx.go): the broadcast    *)
(* pipeline broadcastTxSync, its retry wrapper BroadcastTxSync, the        *)
(* inclusion poll tx / Tx and the orchestrator BroadcastTxBlock.           *)
(* With them: the fee arithmetic (calculateFees, gasSimulateTx), the      *)
(* validation of TxConfig (src/config/tx.go), and the worker scheduler of  *)
(* package cron (Scheduler, runWorker).                                    *)
(*                                                                         *)
(* The node, the keyring and the ledger are the environment: every reply   *)
(* they can give is a nondeterministic choice of the step that asks.       *)
(* An error value is abstracted to what the code reads of it: the chain of *)
(* fmt.Errorf prefixes, and for each of the two substring patterns of      *)
(* src/core/error.go whether the text contains it.                         *)
(***************************************************************************)
EXTENDS Integers, Sequences, FiniteSets, TLC

\* ------------------------------------------------------------------ bounds
MaxAttempts == 3        \* largest retry budget explored (broadcast and query)
MaxMsgs     == 2        \* longest message list explored
MaxAdvance  == 1        \* commits by other senders of the same account
InitSeq     == 5        \* account sequence on the ledger at the start
MaxCalls    == 2        \* calls one caller makes one after the other
GasBits     == 4        \* bits of the gas word explored (the program's has 64)
PriceScale  == 10       \* a decimal amount is a whole number of 1/PriceScale
MaxPrice    == 3        \* largest gas price explored, in 1/PriceScale
AdjScale    == 6        \* a gas adjustment is a whole number of 1/AdjScale
MaxAdj      == 7        \* largest gas adjustment explored, in 1/AdjScale
MaxGasUsed  == 3        \* largest simulated gas usage explored
MaxOps      == 5        \* calls of Start, Stop and RegisterWorkers explored
MaxCycles   == 1        \* inter-run waits a worker with no MaxRuns sits out
MaxMaxRuns  == 1        \* largest MaxRuns of a worker explored
MaxRetryAttempts == 2   \* largest RetryAttempts of a worker explored
MaxInvocations == 2     \* invocations of Run in a cycle with RetryAttempts 0

\* ------------------------------------------------------- program constants
CodeTypeOK   == 0       \* abci.CodeTypeOK

Callers == {1, 2}       \* goroutines that can call BroadcastTxBlock

\* Addresses: of the key named txFromName, and of the authz granter.
SignerAddr  == "signer"
GranterAddr == "granter"
NoAddr      == ""

VARIABLES
    cfg,            \* Client configuration, read-only after construction
    keyPresent,     \* keyring holds the key named txFromName
    msgs,           \* the caller's messages, a sequence of PlainMsgs
    ledgerSeq,      \* the signer's account sequence on the ledger
    node,           \* the node: how it answers, and its mempool
    pc,             \* position of each call
    n,              \* retry.Do attempt counter of the running retry loop
    resp,           \* BroadcastTxSync: var resp *core.ResultBroadcastTx
    err,            \* BroadcastTxSync: var err error
    qerr,           \* Tx: var err error
    result,         \* Tx: var result *core.ResultTx
    acc,            \* broadcastTxSync: acc, the account snapshot of the attempt
    txb,            \* broadcastTxSync: txb, the builder of the attempt
    syncRet,        \* what BroadcastTxSync returned: [resp, err]
    txRet,          \* what Tx returned: [res, err]
    ret,            \* what BroadcastTxBlock returned: [resp, res, err]
    from,           \* what MsgFromAddr returned: [called, addr, err]
    hist,           \* observation of the calls made (counters of what happened)
    calc,           \* applications of calculateFees, Validate and gasSimulateTx
    sched           \* the cron Scheduler, its workers and their goroutines

vars == <<cfg, keyPresent, msgs, ledgerSeq, node, pc, n, resp, err, qerr, result,
          acc, txb, syncRet, txRet, ret, from, hist, calc, sched>>

\* ------------------------------------------------------------------ errors
\* error == nil
NoErr == [step |-> "", chain |-> <<>>, inCache |-> FALSE, wrongSeq |-> FALSE,
          at |-> 0, detail |-> <<>>]

\* An error made by this program at the given step of attempt number at:
\* its text holds none of the node's patterns.
LocalErr(step, prefixes, at) ==
    [step |-> step, chain |-> prefixes, inCache |-> FALSE, wrongSeq |-> FALSE,
     at |-> at, detail |-> <<>>]

\* An error whose innermost text was written by the node or the transport.
RemoteErr(step, prefixes, text, at) ==
    [step |-> step, chain |-> prefixes, inCache |-> text.inCache,
     wrongSeq |-> text.wrongSeq, at |-> at, detail |-> <<>>]

\* fmt.Errorf("<prefix>: %w", e): the text of e is kept behind the prefix.
Wrap(prefix, e) == [e EXCEPT !.chain = <<prefix>> \o @]

\* fmt.Errorf("code=%d, codespace=%s, log=%s", ...)
CodeErr(code, codespace, log) ==
    [step |-> "code", chain |-> <<>>, inCache |-> FALSE, wrongSeq |-> FALSE,
     at |-> 0, detail |-> <<code, codespace, log>>]

\* strings.Contains(strings.ToLower(err.Error()), "tx already exists in cache")
IsTxInMempoolCacheError(e) == e.inCache

\* strings.Contains(strings.ToLower(err.Error()), "incorrect account sequence")
IsWrongSequenceError(e) == e.wrongSeq

\* errors.Is(e, ErrNotFound) for an error made by newErrNotFound
\* (error.go:10-15): its text starts with "not found".
IsNotFound(e) == e.chain # <<>> /\ e.chain[1] = "not found"

\* The three ways the loop of BroadcastTxSync reads the error of an attempt,
\* the mempool pattern being looked for first (tx.go:266-286).
ErrClass(e) ==
    IF e = NoErr THEN "ok"
    ELSE IF IsTxInMempoolCacheError(e) THEN "dup"
    ELSE IF IsWrongSequenceError(e) THEN "seq"
    ELSE "other"

\* The attempt that returned e got as far as the account query (tx.go:217).
ReachedFetch(e) ==
    e = NoErr \/ e.step \in {"account", "prepare", "sign", "submit"}

\* --------------------------------------------------------------- node data
NilResp == [nil |-> TRUE, code |-> 0, codespace |-> "", log |-> "", hash |-> <<>>]
NilRes  == [nil |-> TRUE, code |-> 0, codespace |-> "", log |-> "", hash |-> <<>>]
\* acc: the address asked for, what the ledger answered, and the attempt
\* (from 1) that asked.
NilAcc  == [nil |-> TRUE, address |-> NoAddr, number |-> 0, sequence |-> 0,
            at |-> 0]
\* txb: the messages set, where the gas limit comes from, the sequence of the
\* placeholder signature prepareTx set, the sequence of the signature set
\* last, the account number and sequence of the signer data, whether the
\* signature set last holds signature bytes, and the gas limit and the fee
\* amount set last.
NilTxb  == [nil |-> TRUE, msgs |-> <<>>, gas |-> "", placeholder |-> 0,
            sequence |-> 0, number |-> 0, signerSeq |-> 0, signed |-> FALSE,
            gasLimit |-> 0, fee |-> <<>>]

\* (code, codespace, log) triples the node's CheckTx answers a broadcast with
MempoolVerdicts ==
    { [code |-> CodeTypeOK, codespace |-> "", log |-> ""],
      [code |-> 32, codespace |-> "sdk", log |-> "incorrect account sequence"] }

\* (code, codespace, log) triples of an indexed transaction's execution
ExecVerdicts ==
    { [code |-> CodeTypeOK, codespace |-> "", log |-> ""],
      [code |-> 5, codespace |-> "sdk", log |-> "out of gas"] }

\* What the text of an error of the node or the transport can hold of the two
\* patterns: neither, one of them, or (from the mempool) both.
ErrTexts ==
    { [inCache |-> FALSE, wrongSeq |-> FALSE],
      [inCache |-> TRUE,  wrongSeq |-> FALSE],
      [inCache |-> FALSE, wrongSeq |-> TRUE] }

BroadcastErrTexts == ErrTexts \cup { [inCache |-> TRUE, wrongSeq |-> TRUE] }

\* Account number the ledger gave the account of address a.
AccountNumberOf(a) == IF a = SignerAddr THEN 11 ELSE 12

\* Hash of the encoded transaction of caller p signed with sequence s: two
\* calls of one caller send the same messages, two callers different ones.
TxHash(p, s) == <<p, s>>

\* The node at the start. mode "free": the node and the ledger answer
\* anything they can ever answer. mode "ledger": the ledger answers an account
\* query with the committed sequence, and the mempool takes one transaction
\* per sequence value, the next one only after a commit, and a transaction
\* is found by hash once committed. account: the signer's account exists.
\* cache: hashes in the mempool cache. pending: hashes the mempool accepted
\* that are not committed yet. committed: hashes in a block.
NodeAt(mode, exists) ==
    [mode |-> mode, account |-> exists, cache |-> {}, pending |-> {},
     committed |-> {}, gasUsed |-> 0]

\* Observation of a call: how often each step ran, how many attempts each
\* retry loop has taken the outcome of and how they ended.
NoHist == [calls        |-> 0,    \* calls of BroadcastTxBlock made
           pipelineRuns |-> 0,    \* runs of broadcastTxSync started
           simulations  |-> 0,    \* gas simulations asked of the node
           signs        |-> 0,    \* signatures made with the key
           addrs        |-> {},   \* addresses whose account was queried
           accQueries   |-> 0,    \* account queries issued
           broadcasts   |-> 0,    \* broadcasts sent to the node
           txQueries    |-> 0,    \* transaction-by-hash queries issued
           fetched      |-> {},   \* account sequences the ledger answered
           queriedHashes |-> {},  \* hashes queried
           attempts     |-> 0,    \* pipeline attempts the loop has handled
           atFetch      |-> 0,    \* ... that got as far as the account query
           seqFails     |-> 0,    \* ... that ended in a sequence mismatch
           firstFinal   |-> 0,    \* first one that ended otherwise (0: none)
           queries      |-> 0,    \* queries the loop of Tx has handled
           queryFails   |-> 0,    \* ... that failed
           retriedKinds |-> {}]   \* kinds of query errors Tx retried after

NoSyncRet == [resp |-> NilResp, err |-> NoErr]
NoTxRet   == [res |-> NilRes, err |-> NoErr]
NoRet     == [resp |-> NilResp, res |-> NilRes, err |-> NoErr]
NoFrom    == [called |-> FALSE, addr |-> NoAddr, err |-> NoErr]

\* ------------------------------------------------------------------- Init
\* A message of the caller, valid (ValidateBasic returns nil) or not.
PlainMsgs ==
    [valid : BOOLEAN, exec : {FALSE}, grantee : {NoAddr}, inner : {<<>>}]

MsgLists == UNION { [1..k -> PlainMsgs] : k \in 1..MaxMsgs }

\* ---------------------------------------------------------- gas and fees
\* A uint64 is a word of GasBits bits here; int64(g) reads the same bits as a
\* two's complement number (tx.go:38).
Pow2(k) == 2 ^ k
Min(a, b) == IF a <= b THEN a ELSE b
MaxUint64 == Pow2(GasBits) - 1
ToInt64(g) == IF g < Pow2(GasBits - 1) THEN g ELSE g - Pow2(GasBits)

\* Dec.Ceil().RoundInt() of the decimal a / PriceScale: the least integer
\* that is not smaller.
Ceil(a) == -((-a) \div PriceScale)

\* Denoms, and the lists of gas prices a Client can hold (WithTxGasPrices
\* takes any DecCoins): entries by denom, amounts in 1/PriceScale.
Denoms == <<"tics", "utics">>
GasPriceLists ==
    {<<>>}
    \cup { <<[denom |-> Denoms[d], amount |-> a]>> :
             d \in 1..2, a \in 0..MaxPrice }
    \cup { <<[denom |-> Denoms[1], amount |-> a],
             [denom |-> Denoms[2], amount |-> b]>> :
             a \in 0..MaxPrice, b \in 0..MaxPrice }

\* DecCoins.IsZero: no entry with an amount other than zero.
IsZero(gasPrices) ==
    \A i \in 1..Len(gasPrices) : gasPrices[i].amount = 0

\* tx.go:35-43. One coin per gas price, in the order of the prices; NewCoin
\* panics on a negative amount.
calculateFees(gasPrices, gasLimit) ==
    LET fees == [i \in 1..Len(gasPrices) |->
                   [denom |-> gasPrices[i].denom,
                    amount |-> Ceil(gasPrices[i].amount * ToInt64(gasLimit))]]
        negative == \E i \in 1..Len(gasPrices) : fees[i].amount < 0
    IN [panics |-> negative, coins |-> IF negative THEN <<>> ELSE fees]

NoFees == [panics |-> FALSE, coins |-> <<>>]

\* tx.go:60: uint64(c.txGasAdjustment * float64(gasUsed)), the adjustment
\* in 1/AdjScale; the conversion drops the fraction.
gasSimulateTx(txGasAdjustment, gasUsed) ==
    (txGasAdjustment * gasUsed) \div AdjScale

\* The TxConfigs Validate is applied to. An address is empty, a bech32
\* address or text that is no address; gas_prices is empty, a parsable list
\* or text ParseDecCoins refuses.
TxConfigs ==
    [ AuthzGranterAddr       : {NoAddr, GranterAddr, "notbech32"},
      BroadcastRetryAttempts : 0..1,
      FeeGranterAddr         : {NoAddr, GranterAddr, "notbech32"},
      FromName               : {"", "main"},
      GasAdjustment          : -1..MaxAdj,
      GasPrices              : {"", "0.1tics", "notcoins"},
      QueryRetryAttempts     : 0..1 ]

\* config/tx.go:116-159: "" is a nil error, otherwise the error text.
Validate(c) ==
    IF c.AuthzGranterAddr = "notbech32" THEN "invalid authz_granter_addr"
    ELSE IF c.BroadcastRetryAttempts = 0
         THEN "broadcast_retry_attempts cannot be zero"
    ELSE IF c.FeeGranterAddr = "notbech32" THEN "invalid fee_granter_addr"
    ELSE IF c.FromName = "" THEN "from_name cannot be empty"
    ELSE IF c.GasAdjustment < 0 THEN "gas_adjustment cannot be negative"
    ELSE IF c.GasPrices = "notcoins" THEN "invalid gas_prices"
    ELSE IF c.QueryRetryAttempts = 0 THEN "query_retry_attempts cannot be zero"
    ELSE ""

\* The zero value of TxConfig.
ZeroTxConfig ==
    [ AuthzGranterAddr |-> NoAddr, BroadcastRetryAttempts |-> 0,
      FeeGranterAddr |-> NoAddr, FromName |-> "",
      GasAdjustment |-> 0, GasPrices |-> "", QueryRetryAttempts |-> 0 ]

\* calc: the gas prices and the last two gas limits calculateFees was
\* applied to with what it returned, the TxConfig Validate was applied to
\* with its verdict, and the gas usage gasSimulateTx adjusted with the limit
\* it returned.
NoCalc == [gasPrices |-> <<>>, applied |-> 0, gasLimit |-> 0, fees |-> NoFees,
           prevLimit |-> 0, prevFees |-> NoFees,
           conf |-> ZeroTxConfig, validated |-> FALSE, verdict |-> "",
           simulated |-> FALSE, gasUsed |-> 0, adjusted |-> 0]

\* ----------------------------------------------------------- cron
\* Names of workers.
Names == {"a", "b"}

\* What runWorker reads of a Worker: MaxRuns(), RetryAttempts() and what
\* OnError returns.
WorkerConfs ==
    [ maxRuns : 0..MaxMaxRuns, retryAttempts : 0..MaxRetryAttempts,
      stopOnError : BOOLEAN ]

\* NewBasicWorker: one attempt, OnError returns false, no limit of runs.
NewBasicWorker == [maxRuns |-> 0, retryAttempts |-> 1, stopOnError |-> FALSE]

\* No goroutine of runWorker was started for the worker. c is the loop
\* counter, k the attempt of retry.Do (from 0), cycles the run cycles done,
\* invocations the calls of Run in the cycle running or done last, and
\* reason why the loop was left.
NoGoroutine == [pc |-> "none", c |-> 0, k |-> 0, cycles |-> 0,
                invocations |-> 0, reason |-> ""]

\* sched: the Scheduler NewScheduler returns, with the workers that will be
\* offered to it: isRunning, whether stopSignal is closed, whether mu is
\* held by a Stop that waits, the counter of wg, the names in the worker
\* map; the goroutines of runWorker by worker name; how many goroutines were
\* started and how often OnExit was called per worker; the Start calls
\* that succeeded, whether a Stop closed stopSignal since the last of them,
\* the calls made, the last call that returned with its result and its
\* argument, and whether a goroutine panicked.
NewScheduler(conf) ==
    [ made |-> TRUE, isRunning |-> FALSE, closed |-> FALSE, mu |-> FALSE,
      wg |-> 0, workers |-> {}, conf |-> conf,
      g |-> [w \in Names |-> NoGoroutine],
      starts |-> [w \in Names |-> 0], exits |-> [w \in Names |-> 0],
      epoch |-> 0, closedInEpoch |-> FALSE, ops |-> 0,
      last |-> [op |-> "", res |-> "", arg |-> <<>>], panicked |-> FALSE ]

\* sched: no Scheduler was made.
NoSched == [NewScheduler([w \in Names |-> NewBasicWorker]) EXCEPT !.made = FALSE]

\* Configurations TxConfig.Validate accepts: both retry budgets are non-zero
\* (config/tx.go:125, 154).
Configs ==
    [ txBroadcastRetryAttempts : 1..MaxAttempts,
      txQueryRetryAttempts     : 1..MaxAttempts,
      txAuthzGranterAddr       : BOOLEAN,
      txSimulateAndExecute     : BOOLEAN,
      txGas                    : {MaxGasUsed},
      txGasAdjustment          : {AdjScale + 1},
      txGasPrices              : {<<[denom |-> Denoms[1], amount |-> 1]>>},
      txFees                   : {<<>>} ]

\* Client configurations that differ in what sets the gas limit and the
\* fee: the fixed gas limit (one beyond the range of int64 among them), the
\* adjustment, the gas prices and the fixed fee.
FeeConfigs ==
    [ txBroadcastRetryAttempts : {1},
      txQueryRetryAttempts     : {1},
      txAuthzGranterAddr       : {FALSE},
      txSimulateAndExecute     : BOOLEAN,
      txGas                    : {0, MaxGasUsed, Pow2(GasBits - 1)},
      txGasAdjustment          : {0, AdjScale, AdjScale + 1},
      txGasPrices              : { l \in GasPriceLists :
                                     \A i \in 1..Len(l) :
                                        l[i].amount \in {0, MaxPrice} },
      txFees                   : {<<>>, <<[denom |-> Denoms[1], amount |-> 1]>>} ]

\* The state of the Client after construction with a configuration of C,
\* the goroutines of A about to call, the others making no call; the node
\* answers a simulation with a gas usage of G.
Boot(A, mode, C, G) ==
    /\ cfg \in C
    /\ keyPresent \in BOOLEAN
    /\ msgs \in MsgLists
    /\ ledgerSeq = InitSeq
    /\ \E x \in BOOLEAN, u \in G :
          node = [NodeAt(mode, x) EXCEPT !.gasUsed = u]
    /\ pc = [p \in Callers |-> IF p \in A THEN "idle" ELSE "off"]
    /\ n = [p \in Callers |-> 0]
    /\ resp = [p \in Callers |-> NilResp]
    /\ err = [p \in Callers |-> NoErr]
    /\ qerr = [p \in Callers |-> NoErr]
    /\ result = [p \in Callers |-> NilRes]
    /\ acc = [p \in Callers |-> NilAcc]
    /\ txb = [p \in Callers |-> NilTxb]
    /\ syncRet = [p \in Callers |-> NoSyncRet]
    /\ txRet = [p \in Callers |-> NoTxRet]
    /\ ret = [p \in Callers |-> NoRet]
    /\ from = [p \in Callers |-> NoFrom]
    /\ hist = [p \in Callers |-> NoHist]

\* The state after construction of a Client with one of Configs, nothing
\* else made.
Start(A, mode) ==
    /\ Boot(A, mode, Configs, {1})
    /\ calc = NoCalc
    /\ sched = NoSched

\* One goroutine calls BroadcastTxBlock once.
Init == Start({1}, "free")

\* ------------------------------------------------------- broadcastTxSync
\* Variant: an error already stored is not overwritten by a later error.
AttemptReturns_KeepFirst(p, r, e) ==
    /\ resp' = [resp EXCEPT ![p] = r]
    /\ err' = [err EXCEPT ![p] = IF err[p] # NoErr /\ e # NoErr THEN err[p] ELSE e]
    /\ pc' = [pc EXCEPT ![p] = "retry"]

\* An attempt of the pipeline ends:broadcastTxSync returns (r, e) to
\* retryFunc, which stores them in resp and err (tx.go:265).
AttemptReturns(p, r, e) ==
    /\ resp' = [resp EXCEPT ![p] = r]
    /\ err' = [err EXCEPT ![p] = e]
    /\ pc' = [pc EXCEPT ![p] = "retry"]

\* authz.NewMsgExec(grantee, ms): one message that executes ms, valid iff
\* every message of ms is.
MsgExec(grantee, ms) ==
    [valid |-> \A i \in 1..Len(ms) : ms[i].valid, exec |-> TRUE,
     grantee |-> grantee, inner |-> ms]

\* The messages broadcastTxSync goes on with (tx.go:204-207): with an authz
\* granter, one MsgExec over the caller's messages made with the address of
\* the key.
PipelineMsgs ==
    IF cfg.txAuthzGranterAddr
    THEN << MsgExec(SignerAddr, msgs) >>
    ELSE msgs

\* Variant: the index of the last invalid message is reported.
FirstInvalid_Last(ms) ==
    IF \A i \in 1..Len(ms) : ms[i].valid THEN -1
    ELSE (CHOOSE i \in 1..Len(ms) :
             /\ ~ms[i].valid
             /\ \A j \in (i + 1)..Len(ms) : ms[j].valid) - 1

\* Index (from 0) of the first message failing ValidateBasic, -1 if none.
FirstInvalid(ms) ==
    IF \A i \in 1..Len(ms) : ms[i].valid THEN -1
    ELSE (CHOOSE i \in 1..Len(ms) :
             /\ ~ms[i].valid
             /\ \A j \in 1..(i - 1) : ms[j].valid) - 1

\* Variant: with an authz granter the granter's account is queried.
AccountAddr_Granter(c) ==
    IF c.txAuthzGranterAddr THEN GranterAddr ELSE SignerAddr

\* The address whose account broadcastTxSync queries (tx.go:198, 217): the
\* address of the key, with or without an authz granter.
AccountAddr(c) == SignerAddr

\* What the ledger can answer an account query with.
LedgerAnswers ==
    IF node.mode = "ledger" THEN {ledgerSeq}
    ELSE ledgerSeq..(InitSeq + MaxAdvance)

\* c.Account(ctx, a): the query fails, or it returns the account of a, or nil
\* with a nil error when the ledger has no such account.
Account(a) ==
    {[failed |-> TRUE, acc |-> NilAcc]} \cup
    (IF node.account
     THEN {[failed |-> FALSE,
            acc |-> [nil |-> FALSE, address |-> a,
                     number |-> AccountNumberOf(a), sequence |-> s, at |-> 0]]
             : s \in LedgerAnswers}
     ELSE {[failed |-> FALSE, acc |-> NilAcc]})

\* txsigning.SignatureV2{..., Sequence: acc.GetSequence()} (tx.go:98-103,
\* 144-149): the sequence a signature entry carries.
SignatureV2(a) == [sequence |-> a.sequence]

\* Variant: account number and sequence change places in the signer data.
SignerData_Swapped(a) == [number |-> a.sequence, sequence |-> a.number]

\* authsigning.SignerData{...} (tx.go:157-161)
SignerData(a) == [number |-> a.number, sequence |-> a.sequence]

\* Variant: a failed simulation falls back to the static gas limit.
PrepareOutcome_Fallback(simulate, simOK) ==
    IF simulate /\ simOK THEN "simulated" ELSE "static"

\* prepareTx, tx.go:110-125: with simulation off the static gas limit stays;
\* with simulation on the simulated one is set, and a failed simulation is
\* the error of prepareTx.
PrepareOutcome(simulate, simOK) ==
    IF ~simulate THEN "static"
    ELSE IF simOK THEN "simulated"
    ELSE "error"

\* Variant: the fixed fee whatever the gas prices are.
FeeAmount_Fixed(c, gasLimit) == [panics |-> FALSE, coins |-> c.txFees]

\* prepareTx, tx.go:74 and 81-84, and again 121-124 with the simulated gas
\* limit: the fee amount set for a gas limit. The fixed fees stay unless
\* the gas prices are non-zero.
FeeAmount(c, gasLimit) ==
    IF ~IsZero(c.txGasPrices) THEN calculateFees(c.txGasPrices, gasLimit)
    ELSE [panics |-> FALSE, coins |-> c.txFees]

\* BroadcastTxBlock is called; it calls BroadcastTxSync, whose retry.Do runs
\* the first attempt.
BroadcastTxBlockCall(p) ==
    /\ pc[p] = "idle"
    /\ pc' = [pc EXCEPT ![p] = "key"]
    /\ n' = [n EXCEPT ![p] = 0]
    /\ hist' = [hist EXCEPT ![p].calls = @ + 1]
    /\ UNCHANGED <<cfg, calc, sched, from, node, qerr, keyPresent, msgs, ledgerSeq, resp, err,
                   result, acc, txb, syncRet, txRet, ret>>

\* tx.go:189-214: a pipeline attempt starts with fresh locals; key lookup,
\* authz wrapping, message validation.
ResolveAndValidate(p) ==
    /\ pc[p] = "key"
    /\ hist' = [hist EXCEPT ![p].pipelineRuns = @ + 1]
    /\ acc' = [acc EXCEPT ![p] = NilAcc]
    /\ txb' = [txb EXCEPT ![p] = NilTxb]
    /\ \/ \* the keyring fails
          AttemptReturns(p, NilResp,
              LocalErr("key", <<"failed to get key">>, n[p] + 1))
       \/ /\ ~keyPresent
          /\ AttemptReturns(p, NilResp,
                 LocalErr("key", <<"not found", "key does not exist">>,
                          n[p] + 1))
       \/ /\ keyPresent
          /\ FirstInvalid(PipelineMsgs) >= 0
          /\ AttemptReturns(p, NilResp,
                 [LocalErr("validate",
                           <<"failed to validate message at index">>, n[p] + 1)
                    EXCEPT !.detail = <<FirstInvalid(PipelineMsgs)>>])
       \/ /\ keyPresent
          /\ FirstInvalid(PipelineMsgs) = -1
          /\ pc' = [pc EXCEPT ![p] = "account"]
          /\ UNCHANGED <<resp, err>>
    /\ UNCHANGED <<cfg, calc, sched, from, node, qerr, keyPresent, msgs, ledgerSeq, n, result,
                   syncRet, txRet, ret>>

\* tx.go:216-223: the account of the signing address is queried. The ledger
\* answers with its current sequence; in mode "free" commits of other senders
\* of the account since the last look have moved it on.
FetchAccount(p) ==
    /\ pc[p] = "account"
    /\ \E r \in Account(AccountAddr(cfg)) :
          IF r.failed
          THEN /\ \E t \in ErrTexts :
                     AttemptReturns(p, NilResp,
                         RemoteErr("account", <<"failed to query account">>, t,
                                   n[p] + 1))
               /\ UNCHANGED <<acc, ledgerSeq>>
          ELSE IF r.acc.nil
          THEN /\ AttemptReturns(p, NilResp,
                      LocalErr("account",
                               <<"not found", "account does not exist">>,
                               n[p] + 1))
               /\ UNCHANGED <<acc, ledgerSeq>>
          ELSE /\ ledgerSeq' = r.acc.sequence
               /\ acc' = [acc EXCEPT ![p] = [r.acc EXCEPT !.at = n[p] + 1]]
               /\ pc' = [pc EXCEPT ![p] = "prepare"]
               /\ UNCHANGED <<resp, err>>
    /\ hist' = [hist EXCEPT
          ![p].accQueries = @ + 1,
          ![p].addrs = @ \cup {AccountAddr(cfg)},
          ![p].fetched = IF acc'[p].nil THEN @ ELSE @ \cup {acc'[p].sequence}]
    /\ UNCHANGED <<cfg, calc, sched, from, node, qerr, keyPresent, msgs, n, result, txb,
                   syncRet, txRet, ret>>

\* tx.go:225-229 and prepareTx (tx.go:64-128): the builder with the messages
\* and the placeholder signature, then the optional gas simulation.
PrepareTx(p) ==
    /\ pc[p] = "prepare"
    /\ hist' = [hist EXCEPT ![p].simulations =
                   IF cfg.txSimulateAndExecute
                      /\ ~FeeAmount(cfg, cfg.txGas).panics THEN @ + 1 ELSE @]
    /\ \E simOK \in BOOLEAN :
          LET o == PrepareOutcome(cfg.txSimulateAndExecute, simOK)
              gasLimit == IF o = "simulated"
                          THEN gasSimulateTx(cfg.txGasAdjustment, node.gasUsed)
                          ELSE cfg.txGas
              fees == FeeAmount(cfg, gasLimit)
          IN IF FeeAmount(cfg, cfg.txGas).panics \/ (o # "error" /\ fees.panics)
             THEN \* NewCoin panics in calculateFees
                  /\ pc' = [pc EXCEPT ![p] = "panic"]
                  /\ UNCHANGED <<resp, err, txb>>
             ELSE IF o = "error"
             THEN /\ \E t \in ErrTexts :
                        AttemptReturns(p, NilResp,
                            RemoteErr("prepare", <<"failed to prepare tx",
                                "failed to simulate tx for gas estimation",
                                "failed to simulate tx">>, t, n[p] + 1))
                  /\ UNCHANGED txb
             ELSE /\ txb' = [txb EXCEPT ![p] =
                        [nil |-> FALSE,
                         msgs |-> PipelineMsgs,
                         gas |-> o,
                         placeholder |-> SignatureV2(acc[p]).sequence,
                         sequence |-> SignatureV2(acc[p]).sequence,
                         number |-> 0,
                         signerSeq |-> 0,
                         signed |-> FALSE,
                         gasLimit |-> gasLimit,
                         fee |-> fees.coins]]
                  /\ pc' = [pc EXCEPT ![p] = "sign"]
                  /\ UNCHANGED <<resp, err>>
    /\ UNCHANGED <<cfg, calc, sched, from, node, qerr, keyPresent, msgs, ledgerSeq, n, result, acc,
                   syncRet, txRet, ret>>

\* tx.go:231-234 and signTx (tx.go:131-185).
SignTx(p) ==
    /\ pc[p] = "sign"
    /\ \/ /\ AttemptReturns(p, NilResp,
                 LocalErr("sign", <<"failed to sign tx", "failed to sign tx bytes">>,
                          n[p] + 1))
          /\ UNCHANGED <<txb, hist>>
       \/ /\ txb' = [txb EXCEPT
                ![p].sequence = SignatureV2(acc[p]).sequence,
                ![p].number = SignerData(acc[p]).number,
                ![p].signerSeq = SignerData(acc[p]).sequence,
                ![p].signed = TRUE]
          /\ hist' = [hist EXCEPT ![p].signs = @ + 1]
          /\ pc' = [pc EXCEPT ![p] = "submit"]
          /\ UNCHANGED <<resp, err>>
    /\ UNCHANGED <<cfg, calc, sched, from, node, qerr, keyPresent, msgs, ledgerSeq, n, result, acc,
                   syncRet, txRet, ret>>

\* The mempool of the node takes the transaction with hash h.
Accepts(h) ==
    [node EXCEPT !.cache = @ \cup {h}, !.pending = @ \cup {h}]

\* tx.go:236-254: encoding and the node's synchronous broadcast.
Submit(p) ==
    /\ pc[p] = "submit"
    /\ LET h == TxHash(p, txb[p].sequence)
           ok == [nil |-> FALSE, code |-> CodeTypeOK, codespace |-> "",
                  log |-> "", hash |-> h]
       IN \/ \* the encoder or the construction of the rpc client fails
             /\ AttemptReturns(p, NilResp,
                    LocalErr("submit", <<"failed to create rpc client">>,
                             n[p] + 1))
             /\ UNCHANGED <<hist, node>>
          \/ /\ node.mode = "free"
             /\ hist' = [hist EXCEPT ![p].broadcasts = @ + 1]
             /\ \/ /\ \E t \in BroadcastErrTexts :
                         AttemptReturns(p, NilResp,
                             RemoteErr("submit", <<"failed to sync broadcast tx">>,
                                       t, n[p] + 1))
                   /\ UNCHANGED node
                \/ \E v \in MempoolVerdicts :
                      /\ AttemptReturns(p, [ok EXCEPT !.code = v.code,
                                               !.codespace = v.codespace,
                                               !.log = v.log],
                                        NoErr)
                      /\ node' = IF v.code = CodeTypeOK THEN Accepts(h) ELSE node
          \/ /\ node.mode = "ledger"
             /\ hist' = [hist EXCEPT ![p].broadcasts = @ + 1]
             /\ IF h \in node.cache
                THEN /\ AttemptReturns(p, NilResp,
                            RemoteErr("submit", <<"failed to sync broadcast tx">>,
                                [inCache |-> TRUE, wrongSeq |-> FALSE], n[p] + 1))
                     /\ UNCHANGED node
                ELSE IF /\ txb[p].sequence = ledgerSeq
                        /\ txb[p].signerSeq = ledgerSeq
                        /\ node.pending = {}
                THEN /\ AttemptReturns(p, ok, NoErr)
                     /\ node' = Accepts(h)
                ELSE /\ AttemptReturns(p, NilResp,
                            RemoteErr("submit", <<"failed to sync broadcast tx">>,
                                [inCache |-> FALSE, wrongSeq |-> TRUE], n[p] + 1))
                     /\ UNCHANGED node
    /\ UNCHANGED <<cfg, calc, sched, from, qerr, keyPresent, msgs, ledgerSeq, n, result, acc, txb,
                   syncRet, txRet, ret>>

\* A block is committed with the pending transaction of the signer: the
\* account sequence on the ledger moves on.
Commit ==
    /\ node.mode = "ledger"
    /\ node.pending # {}
    /\ ledgerSeq < InitSeq + MaxAdvance
    /\ ledgerSeq' = ledgerSeq + 1
    /\ node' = [node EXCEPT !.pending = {}, !.committed = @ \cup node.pending]
    /\ UNCHANGED <<cfg, calc, sched, from, keyPresent, msgs, pc, n, resp, err, qerr, result, acc,
                   txb, syncRet, txRet, ret, hist>>

\* The caller, BroadcastTxBlock having returned, calls it again with the same
\* messages.
Rerun(p) ==
    /\ pc[p] = "done"
    /\ hist[p].calls < MaxCalls
    /\ pc' = [pc EXCEPT ![p] = "idle"]
    /\ n' = [n EXCEPT ![p] = 0]
    /\ resp' = [resp EXCEPT ![p] = NilResp]
    /\ err' = [err EXCEPT ![p] = NoErr]
    /\ qerr' = [qerr EXCEPT ![p] = NoErr]
    /\ result' = [result EXCEPT ![p] = NilRes]
    /\ acc' = [acc EXCEPT ![p] = NilAcc]
    /\ txb' = [txb EXCEPT ![p] = NilTxb]
    /\ syncRet' = [syncRet EXCEPT ![p] = NoSyncRet]
    /\ txRet' = [txRet EXCEPT ![p] = NoTxRet]
    /\ ret' = [ret EXCEPT ![p] = NoRet]
    /\ hist' = [hist EXCEPT ![p] = [NoHist EXCEPT !.calls = hist[p].calls]]
    /\ UNCHANGED <<cfg, calc, sched, from, keyPresent, msgs, ledgerSeq, node>>

\* ------------------------------------------------------------ MsgFromAddr
\* Client.Key (part_006:84-102): the key record, (nil, nil) when the keyring
\* has no key of that name, an error when the keyring fails otherwise.
Key(present, fails) ==
    IF fails
    THEN [nil |-> TRUE,
          err |-> LocalErr("key", <<"failed to retrieve key from keyring">>, 0)]
    ELSE [nil |-> ~present, err |-> NoErr]

\* Client.KeyAddr (part_006:104-120) for the outcome k of Client.Key.
KeyAddr(k) ==
    IF k.err # NoErr
    THEN [addr |-> NoAddr, err |-> Wrap("failed to retrieve key", k.err)]
    ELSE IF k.nil THEN [addr |-> NoAddr, err |-> NoErr]
    ELSE [addr |-> SignerAddr, err |-> NoErr]

\* Client.MsgFromAddr (tx.go:21-32) for the outcome k of Client.Key.
MsgFromAddr(c, k) ==
    IF c.txAuthzGranterAddr THEN [addr |-> GranterAddr, err |-> NoErr]
    ELSE IF KeyAddr(k).err # NoErr
    THEN [addr |-> NoAddr,
          err |-> Wrap("failed to get key addr for tx_from_name", KeyAddr(k).err)]
    ELSE [addr |-> KeyAddr(k).addr, err |-> NoErr]

\* A caller asks for the address its messages are sent from.
MsgFromAddrCall(p) ==
    /\ pc[p] = "idle"
    /\ ~from[p].called
    /\ \E fails \in BOOLEAN :
          LET r == MsgFromAddr(cfg, Key(keyPresent, fails))
          IN from' = [from EXCEPT ![p] =
                        [called |-> TRUE, addr |-> r.addr, err |-> r.err]]
    /\ UNCHANGED <<cfg, calc, sched, keyPresent, msgs, ledgerSeq, node, pc, n, resp, err,
                   qerr, result, acc, txb, syncRet, txRet, ret, hist>>

\* Variant: the mempool-cache error is handed to retry.Do like any other.
RetryFuncResult_NoAbsorb(e) == e

\* ------------------------------------------------------- BroadcastTxSync
\* Variant: an outcome whose mempool code reports an incorrect account
\* sequence is taken as a sequence mismatch error.
AttemptErr_ReadsOutcome(r, e) ==
    IF e = NoErr /\ ~r.nil /\ r.code = 32
    THEN RemoteErr("submit", <<"failed to sync broadcast tx">>,
                   [inCache |-> FALSE, wrongSeq |-> TRUE], 0)
    ELSE e

\* What retryFunc looks at of the (resp, err) an attempt returned
\* (tx.go:265-266): the error alone.
AttemptErr(r, e) == e

\* What retryFunc hands to retry.Do for an attempt that left err = e
\* (tx.go:263-276): a mempool-cache error is turned into nil.
RetryFuncResult(e) ==
    IF e # NoErr /\ IsTxInMempoolCacheError(e) THEN NoErr ELSE e

\* Variant: a missing key or account is retried as well.
RetryIfFunc_OrNotFound(e) ==
    IsWrongSequenceError(e) \/ IsNotFound(e)

\* Variant: no error is retried.
RetryIfFunc_Never(e) == FALSE

\* Variant: every error is retried.
RetryIfFunc_Always(e) == TRUE

\* tx.go:279-286
RetryIfFunc(e) == IsWrongSequenceError(e)

\* Variant: one attempt more than the budget.
RetryDo_OffByOne(a, k, r, retryable) ==
    IF r = NoErr THEN "nil"
    ELSE IF ~retryable THEN "stop"
    ELSE IF k = a THEN "stop"
    ELSE "again"

\* retry.Do with Attempts(a), LastErrorOnly(true) and RetryIf(f), asked after
\* an attempt numbered k (from 0) returned r: "nil" ends the loop without
\* error, "stop" ends it with r, "again" runs the next attempt.
RetryDo(a, k, r, retryable) ==
    IF r = NoErr THEN "nil"
    ELSE IF ~retryable THEN "stop"
    ELSE IF k = a - 1 THEN "stop"
    ELSE "again"

\* Variant: a retry only submits the transaction of the failed attempt again.
AttemptEntry_Resubmit == "submit"

\* Where a retried attempt starts: retryFunc calls broadcastTxSync, the whole
\* pipeline, every time (tx.go:265).
AttemptEntry == "key"

\* tx.go:258-301: the retry loop takes the outcome of an attempt; it either
\* starts the next attempt or BroadcastTxSync returns.
BroadcastTxSyncRetry(p) ==
    /\ pc[p] = "retry"
    /\ LET r == RetryFuncResult(AttemptErr(resp[p], err[p]))
           d == RetryDo(cfg.txBroadcastRetryAttempts, n[p], r, RetryIfFunc(r))
       IN /\ hist' = [hist EXCEPT
                ![p].attempts = @ + 1,
                ![p].atFetch = IF ReachedFetch(err[p]) THEN @ + 1 ELSE @,
                ![p].seqFails = IF ErrClass(err[p]) = "seq" THEN @ + 1 ELSE @,
                ![p].firstFinal = IF @ = 0 /\ ErrClass(err[p]) # "seq"
                                  THEN hist[p].attempts + 1 ELSE @]
          /\ CASE d = "nil" ->
                    /\ syncRet' = [syncRet EXCEPT ![p] =
                                     [resp |-> resp[p], err |-> NoErr]]
                    /\ pc' = [pc EXCEPT ![p] = "synced"]
                    /\ UNCHANGED n
               [] d = "stop" ->
                    /\ syncRet' = [syncRet EXCEPT ![p] =
                          [resp |-> NilResp,
                           err |-> Wrap("tx sync broadcast failed after retries", r)]]
                    /\ pc' = [pc EXCEPT ![p] = "synced"]
                    /\ UNCHANGED n
               [] d = "again" ->
                    /\ n' = [n EXCEPT ![p] = @ + 1]
                    /\ pc' = [pc EXCEPT ![p] = AttemptEntry]
                    /\ UNCHANGED syncRet
    /\ UNCHANGED <<cfg, calc, sched, from, node, qerr, keyPresent, msgs, ledgerSeq, resp, err, result, acc,
                   txb, txRet, ret>>

\* ------------------------------------------------------ BroadcastTxBlock
\* BroadcastTxBlock returns (r, s, e).
Returns(p, r, s, e) ==
    /\ ret' = [ret EXCEPT ![p] = [resp |-> r, res |-> s, err |-> e]]
    /\ pc' = [pc EXCEPT ![p] = "done"]

\* Variant: the error of BroadcastTxSync is not looked at before the outcome.
SyncVerdict_IgnoresErr(r, e) ==
    IF r.nil THEN "panic"
    ELSE IF r.code # CodeTypeOK THEN "rejected"
    ELSE "poll"

\* Variant: the mempool code of the outcome is not inspected.
SyncVerdict_NoCodeCheck(r, e) ==
    IF e # NoErr THEN "error"
    ELSE IF r.nil THEN "panic"
    ELSE "poll"

\* tx.go:360-372: what BroadcastTxBlock does with the (r, e) BroadcastTxSync
\* returned: "error" returns e, "rejected" returns the mempool code as an
\* error, "poll" calls Tx; on a nil r with a nil e the read of r.Code panics.
SyncVerdict(r, e) ==
    IF e # NoErr THEN "error"
    ELSE IF r.nil THEN "panic"
    ELSE IF r.code # CodeTypeOK THEN "rejected"
    ELSE "poll"

\* tx.go:360-372: BroadcastTxSync has returned; its error and the mempool
\* code are inspected, then Tx is called with the hash of the outcome.
AfterBroadcastTxSync(p) ==
    /\ pc[p] = "synced"
    /\ LET r == syncRet[p].resp
           e == syncRet[p].err
           v == SyncVerdict(r, e)
       IN CASE v = "error" ->
                 /\ Returns(p, NilResp, NilRes, e)
                 /\ UNCHANGED n
            [] v = "panic" ->
                 /\ pc' = [pc EXCEPT ![p] = "panic"]
                 /\ UNCHANGED <<n, ret>>
            [] v = "rejected" ->
                 /\ Returns(p, r, NilRes,
                        Wrap("tx sync broadcast failed",
                             CodeErr(r.code, r.codespace, r.log)))
                 /\ UNCHANGED n
            [] v = "poll" ->
                 /\ pc' = [pc EXCEPT ![p] = "query"]
                 /\ n' = [n EXCEPT ![p] = 0]
                 /\ UNCHANGED ret
    /\ UNCHANGED <<cfg, calc, sched, from, node, keyPresent, msgs, ledgerSeq, resp, err, qerr, result,
                   acc, txb, syncRet, txRet, hist>>

\* --------------------------------------------------------------- tx / Tx
\* tx.go:304-318 inside retryFunc (tx.go:326-333): one query by hash. The rpc
\* client is built from the address Submit already built one from.
QueryTx(p) ==
    /\ pc[p] = "query"
    /\ hist' = [hist EXCEPT ![p].txQueries = @ + 1,
                            ![p].queriedHashes = @ \cup {syncRet[p].resp.hash}]
    /\ \/ \E t \in ErrTexts :
             /\ result' = [result EXCEPT ![p] = NilRes]
             /\ qerr' = [qerr EXCEPT ![p] =
                           RemoteErr("query", <<"failed to query tx">>, t,
                                     n[p] + 1)]
       \/ \E v \in ExecVerdicts :
             /\ node.mode = "ledger" => syncRet[p].resp.hash \in node.committed
             /\ result' = [result EXCEPT ![p] =
                             [nil |-> FALSE, code |-> v.code,
                              codespace |-> v.codespace, log |-> v.log,
                              hash |-> syncRet[p].resp.hash]]
             /\ qerr' = [qerr EXCEPT ![p] = NoErr]
    /\ pc' = [pc EXCEPT ![p] = "qretry"]
    /\ UNCHANGED <<cfg, calc, sched, from, node, keyPresent, msgs, ledgerSeq, n, resp, err, acc, txb,
                   syncRet, txRet, ret>>

\* Variant: a result whose execution failed is handed to retry.Do as an error.
TxRetryFuncResult_ChecksCode(res, e) ==
    IF e = NoErr /\ res.code # CodeTypeOK
    THEN CodeErr(res.code, res.codespace, res.log)
    ELSE e

\* What retryFunc of Tx hands to retry.Do for a query that left result = res
\* and err = e (tx.go:326-333): the error of the query, nothing else.
TxRetryFuncResult(res, e) == e

\* Variant: Tx retries on the broadcaster's condition.
TxRetryIfFunc_AsBroadcast(e) == IsWrongSequenceError(e)

\* tx.go:336-338
TxRetryIfFunc(e) == TRUE

\* tx.go:321-353: the retry loop of Tx takes the outcome of a query.
TxRetry(p) ==
    /\ pc[p] = "qretry"
    /\ LET r == TxRetryFuncResult(result[p], qerr[p])
           d == RetryDo(cfg.txQueryRetryAttempts, n[p], r, TxRetryIfFunc(r))
       IN /\ hist' = [hist EXCEPT
                ![p].queries = @ + 1,
                ![p].queryFails = IF r # NoErr THEN @ + 1 ELSE @,
                ![p].retriedKinds = IF d = "again" THEN @ \cup {ErrClass(r)}
                                    ELSE @]
          /\ CASE d = "nil" ->
                    /\ txRet' = [txRet EXCEPT ![p] =
                                   [res |-> result[p], err |-> NoErr]]
                    /\ pc' = [pc EXCEPT ![p] = "queried"]
                    /\ UNCHANGED n
               [] d = "stop" ->
                    /\ txRet' = [txRet EXCEPT ![p] =
                          [res |-> NilRes,
                           err |-> Wrap("tx query failed after retries", r)]]
                    /\ pc' = [pc EXCEPT ![p] = "queried"]
                    /\ UNCHANGED n
               [] d = "again" ->
                    /\ n' = [n EXCEPT ![p] = @ + 1]
                    /\ pc' = [pc EXCEPT ![p] = "query"]
                    /\ UNCHANGED txRet
    /\ UNCHANGED <<cfg, calc, sched, from, node, keyPresent, msgs, ledgerSeq, resp, err, qerr, result,
                   acc, txb, syncRet, ret>>

\* Variant: the execution code of the result is not inspected.
BlockResult_NoCodeCheck(r, s, e) ==
    IF e # NoErr THEN [resp |-> r, res |-> NilRes, err |-> e]
    ELSE [resp |-> r, res |-> s, err |-> NoErr]

\* Variant: a failed execution drops the result.
BlockResult_NilResOnFailure(r, s, e) ==
    IF e # NoErr THEN [resp |-> r, res |-> NilRes, err |-> e]
    ELSE IF s.code # CodeTypeOK
    THEN [resp |-> r, res |-> NilRes,
          err |-> Wrap("tx failed", CodeErr(s.code, s.codespace, s.log))]
    ELSE [resp |-> r, res |-> s, err |-> NoErr]

\* Variant: a failed Tx drops the broadcast outcome as well.
BlockResult_DropsOutcome(r, s, e) ==
    IF e # NoErr THEN [resp |-> NilResp, res |-> NilRes, err |-> e]
    ELSE IF s.code # CodeTypeOK
    THEN [resp |-> r, res |-> s,
          err |-> Wrap("tx failed", CodeErr(s.code, s.codespace, s.log))]
    ELSE [resp |-> r, res |-> s, err |-> NoErr]

\* tx.go:372-384: what BroadcastTxBlock returns once Tx returned (s, e) for
\* the outcome r.
BlockResult(r, s, e) ==
    IF e # NoErr THEN [resp |-> r, res |-> NilRes, err |-> e]
    ELSE IF s.code # CodeTypeOK
    THEN [resp |-> r, res |-> s,
          err |-> Wrap("tx failed", CodeErr(s.code, s.codespace, s.log))]
    ELSE [resp |-> r, res |-> s, err |-> NoErr]

\* tx.go:372-384: Tx has returned; its error and the execution code are
\* inspected and BroadcastTxBlock returns.
AfterTx(p) ==
    /\ pc[p] = "queried"
    /\ LET b == BlockResult(syncRet[p].resp, txRet[p].res, txRet[p].err)
       IN Returns(p, b.resp, b.res, b.err)
    /\ UNCHANGED <<cfg, calc, sched, from, node, qerr, keyPresent, msgs, ledgerSeq, n, resp, err, result, acc,
                   txb, syncRet, txRet, hist>>

\* ------------------------------------------------------------------- Next
Next ==
    \/ \E p \in Callers : BroadcastTxBlockCall(p)
    \/ \E p \in Callers : ResolveAndValidate(p)
    \/ \E p \in Callers : FetchAccount(p)
    \/ \E p \in Callers : PrepareTx(p)
    \/ \E p \in Callers : SignTx(p)
    \/ \E p \in Callers : Submit(p)
    \/ \E p \in Callers : BroadcastTxSyncRetry(p)
    \/ \E p \in Callers : AfterBroadcastTxSync(p)
    \/ \E p \in Callers : QueryTx(p)
    \/ \E p \in Callers : TxRetry(p)
    \/ \E p \in Callers : AfterTx(p)

Spec == Init /\ [][Next]_vars

\* One goroutine calls BroadcastTxBlock, and again when it has returned,
\* against a node that keeps its mempool and its ledger as they are kept.
InitRerun == Start({1}, "ledger")

NextRerun ==
    \/ Next
    \/ Commit
    \/ \E p \in Callers : Rerun(p)

SpecRerun == InitRerun /\ [][NextRerun]_vars

\* Two goroutines call BroadcastTxBlock with the same key, without a lock,
\* against that node. The key and the account exist, the messages are valid
\* and sent as they are with the static gas limit, the broadcast budget allows
\* a retry, and the inclusion poll makes one query.
InitRace ==
    /\ Start({1, 2}, "ledger")
    /\ keyPresent
    /\ node.account
    /\ FirstInvalid(msgs) = -1
    /\ cfg.txBroadcastRetryAttempts >= 2
    /\ cfg.txQueryRetryAttempts = 1
    /\ ~cfg.txAuthzGranterAddr
    /\ ~cfg.txSimulateAndExecute

NextRace ==
    \/ Next
    \/ Commit

SpecRace == InitRace /\ [][NextRace]_vars

\* Callers that ask for the sender address of their messages.
NextFrom == \E p \in Callers : MsgFromAddrCall(p)

SpecFrom == Start({1, 2}, "free") /\ [][NextFrom]_vars

\* ------------------------------------------- calculateFees on its own
\* The state but for calc, no goroutine calling.
Quiet ==
    /\ Boot({}, "free", FeeConfigs, {0})
    /\ cfg.txGas = 0 /\ cfg.txGasAdjustment = 0 /\ cfg.txGasPrices = <<>>
    /\ cfg.txFees = <<>> /\ ~cfg.txSimulateAndExecute
    /\ keyPresent /\ node.account
    /\ Len(msgs) = 1 /\ FirstInvalid(msgs) = -1

\* calculateFees is applied to the gas prices of calc and a gas limit.
CalculateFeesCall ==
    /\ \E g \in 0..MaxUint64 :
          calc' = [calc EXCEPT !.applied = Min(2, @ + 1),
                               !.prevLimit = calc.gasLimit,
                               !.prevFees = calc.fees,
                               !.gasLimit = g,
                               !.fees = calculateFees(calc.gasPrices, g)]
    /\ UNCHANGED <<cfg, sched, from, node, qerr, keyPresent, msgs, ledgerSeq,
                   pc, n, resp, err, result, acc, txb, syncRet, txRet, ret,
                   hist>>

InitFees ==
    /\ Quiet
    /\ \E l \in GasPriceLists : calc = [NoCalc EXCEPT !.gasPrices = l]
    /\ sched = NoSched

SpecFees == InitFees /\ [][CalculateFeesCall]_vars

\* ---------------------------------- Validate and the adjusted gas limit
\* Validate is applied to the TxConfig of calc.
ValidateCall ==
    /\ ~calc.validated
    /\ calc' = [calc EXCEPT !.validated = TRUE, !.verdict = Validate(calc.conf)]
    /\ UNCHANGED <<cfg, sched, from, node, qerr, keyPresent, msgs, ledgerSeq,
                   pc, n, resp, err, result, acc, txb, syncRet, txRet, ret,
                   hist>>

\* A Client made from a TxConfig that Validate accepted (NewClientFromConfig
\* takes txGasAdjustment from it) simulates a transaction: gasSimulateTx
\* adjusts the gas usage the node reports.
GasSimulateTxCall ==
    /\ calc.validated
    /\ calc.verdict = ""
    /\ \E u \in 0..MaxGasUsed :
          calc' = [calc EXCEPT !.simulated = TRUE, !.gasUsed = u,
                               !.adjusted = gasSimulateTx(calc.conf.GasAdjustment, u)]
    /\ UNCHANGED <<cfg, sched, from, node, qerr, keyPresent, msgs, ledgerSeq,
                   pc, n, resp, err, result, acc, txb, syncRet, txRet, ret,
                   hist>>

InitValidate ==
    /\ Quiet
    /\ \E c \in TxConfigs : calc = [NoCalc EXCEPT !.conf = c]
    /\ sched = NoSched

NextValidate == ValidateCall \/ GasSimulateTxCall

SpecValidate == InitValidate /\ [][NextValidate]_vars

\* ------------------------------------------ the pipeline with gas varied
InitFee ==
    /\ Boot({1}, "free", FeeConfigs, 0..MaxGasUsed)
    /\ keyPresent
    /\ node.account
    /\ Len(msgs) = 1
    /\ FirstInvalid(msgs) = -1
    /\ calc = NoCalc
    /\ sched = NoSched

SpecFee == InitFee /\ [][Next]_vars

\* ------------------------------------------------------- cron.Scheduler
\* The Client, which the Scheduler does not touch.
clientVars == <<cfg, calc, from, node, qerr, keyPresent, msgs, ledgerSeq, pc,
                n, resp, err, result, acc, txb, syncRet, txRet, ret, hist>>

\* The Scheduler can take a step: it was made and no goroutine panicked.
Alive == sched.made /\ ~sched.panicked

\* A call of Start, Stop or RegisterWorkers gets past s.mu.Lock().
Locked == Alive /\ sched.ops < MaxOps /\ ~sched.mu

\* Variant: the loop runs once more than MaxRuns.
LoopHead_OneMore(cf, gr) ==
    IF cf.maxRuns = 0 \/ gr.c <= cf.maxRuns
    THEN [gr EXCEPT !.pc = "run", !.k = 0, !.invocations = 0]
    ELSE [gr EXCEPT !.pc = "exit", !.reason = "maxruns"]

\* runWorker, the head of the for loop with the goroutine gr of a worker
\* with configuration cf: the next cycle, or the end of the loop.
LoopHead(cf, gr) ==
    IF cf.maxRuns = 0 \/ gr.c < cf.maxRuns
    THEN [gr EXCEPT !.pc = "run", !.k = 0, !.invocations = 0]
    ELSE [gr EXCEPT !.pc = "exit", !.reason = "maxruns"]

\* Scheduler.Start
StartCall ==
    /\ Locked
    /\ IF sched.isRunning
       THEN sched' = [sched EXCEPT
               !.ops = @ + 1,
               !.last = [op |-> "Start", res |-> "scheduler is already running",
                         arg |-> <<>>]]
       ELSE sched' = [sched EXCEPT
               !.ops = @ + 1,
               !.isRunning = TRUE,
               !.wg = @ + Cardinality(sched.workers),
               !.g = [w \in Names |->
                        IF w \in sched.workers
                        THEN LoopHead(sched.conf[w], NoGoroutine) ELSE @[w]],
               !.starts = [w \in Names |->
                             IF w \in sched.workers THEN @[w] + 1 ELSE @[w]],
               !.epoch = @ + 1,
               !.closedInEpoch = FALSE,
               !.last = [op |-> "Start", res |-> "", arg |-> <<>>]]
    /\ UNCHANGED clientVars

\* The lists of workers RegisterWorkers is called with, by name.
WorkerLists == UNION { [1..k -> Names] : k \in 1..2 }

\* Variant: a name already in the map is not looked for.
FirstDuplicate_None(registered, ws) == 0

\* RegisterWorkers, the loop: the index of the first worker of ws whose name
\* is in the map when its turn comes, 0 if there is none.
FirstDuplicate(registered, ws) ==
    LET dup(i) == ws[i] \in registered \/ \E j \in 1..(i - 1) : ws[j] = ws[i]
    IN IF \E i \in 1..Len(ws) : dup(i)
       THEN CHOOSE i \in 1..Len(ws) : dup(i) /\ \A j \in 1..(i - 1) : ~dup(j)
       ELSE 0

\* Scheduler.RegisterWorkers
RegisterWorkersCall(ws) ==
    /\ Locked
    /\ IF sched.isRunning
       THEN sched' = [sched EXCEPT
               !.ops = @ + 1,
               !.last = [op |-> "RegisterWorkers",
                         res |-> "scheduler is already running",
                         arg |-> ws]]
       ELSE LET d == FirstDuplicate(sched.workers, ws)
                upto == IF d = 0 THEN Len(ws) ELSE d - 1
            IN sched' = [sched EXCEPT
                  !.ops = @ + 1,
                  !.workers = @ \cup { ws[i] : i \in 1..upto },
                  !.last = [op |-> "RegisterWorkers",
                            res |-> IF d = 0 THEN "" ELSE "duplicate worker",
                            arg |-> ws]]
    /\ UNCHANGED clientVars

\* Scheduler.Stop up to s.wg.Wait(): closing a closed channel panics.
StopCall ==
    /\ Locked
    /\ IF ~sched.isRunning
       THEN sched' = [sched EXCEPT
               !.ops = @ + 1,
               !.last = [op |-> "Stop", res |-> "not running", arg |-> <<>>]]
       ELSE IF sched.closed
       THEN sched' = [sched EXCEPT !.ops = @ + 1, !.panicked = TRUE]
       ELSE sched' = [sched EXCEPT
               !.ops = @ + 1,
               !.closed = TRUE,
               !.closedInEpoch = TRUE,
               !.mu = TRUE]
    /\ UNCHANGED clientVars

\* Variant: Stop does not wait for the goroutines.
WaitDone_NoWait(wg) == TRUE

\* s.wg.Wait() returns.
WaitDone(wg) == wg = 0

\* Scheduler.Stop from s.wg.Wait() on.
StopReturn ==
    /\ Alive
    /\ sched.mu
    /\ WaitDone(sched.wg)
    /\ sched' = [sched EXCEPT
          !.isRunning = FALSE,
          !.mu = FALSE,
          !.last = [op |-> "Stop", res |-> "stopped", arg |-> <<>>]]
    /\ UNCHANGED clientVars

\* runWorker, retry.Do: Run is invoked once more and succeeds or fails.
RunStep(w) ==
    /\ Alive
    /\ sched.g[w].pc = "run"
    /\ \E ok \in BOOLEAN :
          LET gr == sched.g[w]
              cf == sched.conf[w]
              e == IF ok THEN NoErr ELSE LocalErr("run", <<"run failed">>, 0)
              d == RetryDo(cf.retryAttempts, gr.k, e, TRUE)
              ran == [gr EXCEPT !.invocations = @ + 1]
          IN /\ (d = "again" /\ cf.retryAttempts = 0) =>
                   gr.k + 1 < MaxInvocations
             /\ sched' = [sched EXCEPT !.g[w] =
                   CASE d = "again" -> [ran EXCEPT !.k = @ + 1]
                     [] d = "nil" -> [ran EXCEPT !.pc = "wait", !.cycles = @ + 1]
                     [] d = "stop" ->
                          IF cf.stopOnError
                          THEN [ran EXCEPT !.pc = "exit", !.cycles = @ + 1,
                                           !.reason = "error"]
                          ELSE [ran EXCEPT !.pc = "wait", !.cycles = @ + 1]]
    /\ UNCHANGED clientVars

\* runWorker, the select: the stop signal, or the interval is over and the
\* loop goes on.
WaitStep(w) ==
    /\ Alive
    /\ sched.g[w].pc = "wait"
    /\ \/ /\ sched.closed
          /\ sched' = [sched EXCEPT !.g[w].pc = "exit",
                                    !.g[w].reason = "signal"]
       \/ /\ sched.conf[w].maxRuns > 0 \/ sched.g[w].c < MaxCycles
          /\ sched' = [sched EXCEPT !.g[w] =
                LoopHead(sched.conf[w], [sched.g[w] EXCEPT !.c = @ + 1])]
    /\ UNCHANGED clientVars

\* runWorker, the deferred function: OnExit, then wg.Done.
ExitStep(w) ==
    /\ Alive
    /\ sched.g[w].pc = "exit"
    /\ sched' = [sched EXCEPT !.g[w].pc = "gone",
                              !.exits[w] = @ + 1,
                              !.wg = @ - 1]
    /\ UNCHANGED clientVars

InitCron ==
    /\ Quiet
    /\ calc = NoCalc
    /\ \E cf \in WorkerConfs :
          sched = NewScheduler([w \in Names |->
                                  IF w = "a" THEN cf ELSE NewBasicWorker])

NextCron ==
    \/ StartCall
    \/ StopCall
    \/ StopReturn
    \/ \E ws \in WorkerLists : RegisterWorkersCall(ws)
    \/ \E w \in Names : RunStep(w)
    \/ \E w \in Names : WaitStep(w)
    \/ \E w \in Names : ExitStep(w)

SpecCron == InitCron /\ [][NextCron]_vars

\* ------------------------------------------------------------ type check
TypeOK ==
    /\ cfg \in Configs \cup FeeConfigs
    /\ \A p \in Callers :
          /\ pc[p] \in {"off", "idle", "key", "account", "prepare", "sign", "submit",
                        "retry", "synced", "query", "qretry", "queried",
                        "done", "panic"}
          /\ n[p] \in 0..MaxAttempts

\* ========================================================= properties
\* The retry loop of BroadcastTxSync is over for call p.
PastLoop(p) ==
    pc[p] \in {"synced", "query", "qretry", "queried", "done", "panic"}

\* An attempt of the pipeline is running for call p, or has just returned.
InAttempt(p) ==
    pc[p] \in {"account", "prepare", "sign", "submit", "retry"}

\* C1: BroadcastTxBlock returns a nil error only when the broadcast produced
\* an outcome with mempool code OK and the query for that outcome's hash
\* returned a result with execution code OK; both results it returns are then
\* non-nil.
C1_NilErrorMeansConfirmed ==
    \A p \in Callers :
       (pc[p] = "done" /\ ret[p].err = NoErr) =>
          /\ ~ret[p].resp.nil
          /\ ret[p].resp.code = CodeTypeOK
          /\ ret[p].resp = resp[p]
          /\ hist[p].broadcasts >= 1
          /\ ~ret[p].res.nil
          /\ ret[p].res.code = CodeTypeOK
          /\ ret[p].res = result[p]
          /\ ret[p].res.hash = ret[p].resp.hash
          /\ hist[p].queriedHashes = {ret[p].resp.hash}

C1_Witness ==
    \E p \in Callers :
       /\ pc[p] = "done"
       /\ ret[p].err = NoErr
       /\ ~ret[p].resp.nil
       /\ ~ret[p].res.nil

\* C2: an attempt of BroadcastTxSync whose error text matches the mempool
\* "already exists in cache" pattern is the last attempt of the loop, whatever
\* budget remains, and BroadcastTxSync returns no error.
C2_MempoolDuplicateStopsLoop ==
    \A p \in Callers :
       (err[p] # NoErr /\ IsTxInMempoolCacheError(err[p])) =>
          \/ /\ pc[p] = "retry"
             /\ hist[p].pipelineRuns = hist[p].attempts + 1
          \/ /\ PastLoop(p)
             /\ hist[p].firstFinal = hist[p].attempts
             /\ hist[p].pipelineRuns = hist[p].attempts
             /\ hist[p].broadcasts <= hist[p].attempts
             /\ syncRet[p].err = NoErr

C2_Witness ==
    \E p \in Callers :
       /\ PastLoop(p)
       /\ hist[p].attempts = 1
       /\ cfg.txBroadcastRetryAttempts >= 2
       /\ err[p].step = "submit"
       /\ IsTxInMempoolCacheError(err[p])
       /\ IsWrongSequenceError(err[p])
       /\ syncRet[p].err = NoErr

\* C3: a sequence-mismatch attempt with budget left is followed by a run of
\* the whole pipeline, account query included: the loop ends on a sequence
\* mismatch only without budget, every attempt starts at the top of the
\* pipeline, and the number of account queries is the number of attempts that
\* reached the account-fetch step.
C3_RetryRefetchesAccount ==
    \A p \in Callers :
       /\ (PastLoop(p) \/ pc[p] = "key") =>
             /\ hist[p].accQueries = hist[p].atFetch
             /\ hist[p].pipelineRuns = hist[p].attempts
       /\ InAttempt(p) => hist[p].pipelineRuns = hist[p].attempts + 1
       /\ (pc[p] = "key" /\ hist[p].attempts > 0) =>
             /\ ErrClass(err[p]) = "seq"
             /\ hist[p].attempts < cfg.txBroadcastRetryAttempts
       /\ (PastLoop(p) /\ ErrClass(err[p]) = "seq") =>
             hist[p].attempts = cfg.txBroadcastRetryAttempts

\* Scenario B: mismatch from the node at sequence InitSeq, success after
\* re-fetching InitSeq + 1.
C3_Witness ==
    \E p \in Callers :
       /\ pc[p] = "done"
       /\ ret[p].err = NoErr
       /\ hist[p].attempts = 2
       /\ hist[p].seqFails = 1
       /\ hist[p].broadcasts = 2
       /\ hist[p].accQueries = 2
       /\ hist[p].fetched = {InitSeq, InitSeq + 1}
       /\ ret[p].resp.hash = TxHash(p, InitSeq + 1)

\* C4: an attempt error that is neither mempool-duplicate nor a sequence
\* mismatch is the last attempt of the loop, whatever budget remains, and
\* BroadcastTxSync returns that error (wrapped) with no outcome.
C4_OtherErrorIsFatal ==
    \A p \in Callers :
       ErrClass(err[p]) = "other" =>
          \/ /\ pc[p] = "retry"
             /\ hist[p].pipelineRuns = hist[p].attempts + 1
          \/ /\ PastLoop(p)
             /\ hist[p].firstFinal = hist[p].attempts
             /\ hist[p].pipelineRuns = hist[p].attempts
             /\ syncRet[p].resp.nil
             /\ syncRet[p].err =
                   Wrap("tx sync broadcast failed after retries", err[p])
             /\ pc[p] = "done" => ret[p].err = syncRet[p].err

C4_Witness ==
    \E p \in Callers :
       /\ pc[p] = "done"
       /\ hist[p].attempts = 1
       /\ cfg.txBroadcastRetryAttempts >= 2
       /\ ErrClass(err[p]) = "other"
       /\ err[p].step = "submit"
       /\ ret[p].err # NoErr

C6_ExhaustionReturnsLastError ==
    \A p \in Callers :
       (/\ PastLoop(p)
        /\ hist[p].attempts >= 1
        /\ hist[p].seqFails = hist[p].attempts) =>
          LET k == cfg.txBroadcastRetryAttempts
          IN /\ hist[p].attempts = k
             /\ hist[p].pipelineRuns = k
             /\ syncRet[p].resp.nil
             /\ err[p].at = k
             /\ syncRet[p].err =
                   Wrap("tx sync broadcast failed after retries", err[p])

C6_Witness ==
    \E p \in Callers :
       /\ PastLoop(p)
       /\ cfg.txBroadcastRetryAttempts = 3
       /\ hist[p].attempts = 3
       /\ hist[p].seqFails = 3
       /\ hist[p].broadcasts = 2
       /\ syncRet[p].err.step = "account"
       /\ syncRet[p].err.at = 3

\* C7: if BroadcastTxSync returns an error, BroadcastTxBlock returns
\* (nil, nil, that error) at once and no transaction-by-hash query is issued.
C7_SyncErrorSkipsInclusion ==
    \A p \in Callers :
       syncRet[p].err # NoErr =>
          /\ pc[p] \in {"synced", "done"}
          /\ hist[p].txQueries = 0
          /\ hist[p].queries = 0
          /\ pc[p] = "done" =>
                ret[p] = [resp |-> NilResp, res |-> NilRes,
                          err |-> syncRet[p].err]

C7_Witness ==
    \E p \in Callers :
       /\ pc[p] = "done"
       /\ syncRet[p].err # NoErr
       /\ ret[p].err = syncRet[p].err

\* C8: if the outcome's mempool code is not OK, BroadcastTxBlock returns an
\* error carrying code, codespace and log, with the outcome and a nil result,
\* and no transaction-by-hash query is issued.
C8_MempoolRejectionIsFatal ==
    \A p \in Callers :
       (/\ PastLoop(p)
        /\ syncRet[p].err = NoErr
        /\ ~syncRet[p].resp.nil
        /\ syncRet[p].resp.code # CodeTypeOK) =>
          /\ pc[p] \in {"synced", "done"}
          /\ hist[p].txQueries = 0
          /\ hist[p].queries = 0
          /\ pc[p] = "done" =>
                /\ ret[p].resp = syncRet[p].resp
                /\ ret[p].res.nil
                /\ ret[p].err # NoErr
                /\ ret[p].err.detail = <<syncRet[p].resp.code,
                                         syncRet[p].resp.codespace,
                                         syncRet[p].resp.log>>

C8_Witness ==
    \E p \in Callers :
       /\ pc[p] = "done"
       /\ ~ret[p].resp.nil
       /\ ret[p].resp.code = 32
       /\ ret[p].err.detail = <<32, "sdk", "incorrect account sequence">>

C10_QueryExhaustion ==
    \A p \in Callers :
       (/\ pc[p] = "done"
        /\ hist[p].txQueries = cfg.txQueryRetryAttempts
        /\ hist[p].queryFails = cfg.txQueryRetryAttempts) =>
          /\ ret[p].err = Wrap("tx query failed after retries", qerr[p])
          /\ ret[p].err # NoErr
          /\ ~ret[p].resp.nil
          /\ ret[p].resp.code = CodeTypeOK
          /\ ret[p].resp = syncRet[p].resp
          /\ ret[p].res.nil

C10_Witness ==
    \E p \in Callers :
       /\ pc[p] = "done"
       /\ cfg.txQueryRetryAttempts >= 2
       /\ hist[p].txQueries = cfg.txQueryRetryAttempts
       /\ hist[p].queryFails = cfg.txQueryRetryAttempts
       /\ ~ret[p].resp.nil
       /\ ret[p].res.nil

\* C11: a query of Tx that succeeds with a result whose execution code is not
\* OK ends the polling at that query: no further query is made, whatever
\* budget is left, and Tx returns that result with a nil error.
C11_NonOkResultEndsPolling ==
    \A p \in Callers :
       (~result[p].nil /\ result[p].code # CodeTypeOK) =>
          /\ pc[p] \in {"qretry", "queried", "done"}
          /\ qerr[p] = NoErr
          /\ hist[p].txQueries <= cfg.txQueryRetryAttempts
          /\ pc[p] # "qretry" =>
                /\ txRet[p] = [res |-> result[p], err |-> NoErr]
                /\ hist[p].txQueries = hist[p].queries
                /\ hist[p].queryFails = hist[p].queries - 1

C11_Witness ==
    \E p \in Callers :
       /\ pc[p] = "queried"
       /\ cfg.txQueryRetryAttempts = 3
       /\ hist[p].txQueries = 2
       /\ hist[p].queryFails = 1
       /\ result[p].code = 5
       /\ txRet[p].res = result[p]
       /\ txRet[p].err = NoErr

\* C12: when the inclusion query succeeds with an execution code that is not
\* OK, BroadcastTxBlock returns an error holding the code, the codespace and
\* the log of the result, together with the broadcast outcome and the result,
\* both non-nil.
C12_ExecFailureReturnsBoth ==
    \A p \in Callers :
       (/\ pc[p] = "done"
        /\ txRet[p].err = NoErr
        /\ ~txRet[p].res.nil
        /\ txRet[p].res.code # CodeTypeOK) =>
          /\ ret[p].err # NoErr
          /\ ret[p].err =
                Wrap("tx failed", CodeErr(txRet[p].res.code,
                                          txRet[p].res.codespace,
                                          txRet[p].res.log))
          /\ ret[p].err.detail = <<result[p].code, result[p].codespace,
                                   result[p].log>>
          /\ ~ret[p].resp.nil
          /\ ret[p].resp = syncRet[p].resp
          /\ ~ret[p].res.nil
          /\ ret[p].res = txRet[p].res

C12_Witness ==
    \E p \in Callers :
       /\ pc[p] = "done"
       /\ ~ret[p].resp.nil
       /\ ret[p].resp.code = CodeTypeOK
       /\ ~ret[p].res.nil
       /\ ret[p].res.code = 5
       /\ ret[p].err.chain = <<"tx failed">>
       /\ ret[p].err.detail = <<5, "sdk", "out of gas">>

\* C13: a second call of BroadcastTxBlock with the same messages, made while
\* the transaction of the first call is still in the mempool cache and the
\* account sequence has not changed, so that its broadcast fails with the
\* already-in-cache error, returns normally and reports no broadcast error.
C13_RerunCompletesAsDuplicate ==
    \A p \in Callers :
       (/\ hist[p].calls = 2
        /\ PastLoop(p)
        /\ err[p].step = "submit"
        /\ IsTxInMempoolCacheError(err[p])
        /\ acc[p].sequence = InitSeq
        /\ TxHash(p, InitSeq) \in node.cache) =>
          /\ syncRet[p].err = NoErr
          /\ pc[p] # "panic"
          /\ pc[p] = "done" => ret[p].err = NoErr

\* C14: in every attempt the sequence of the placeholder signature, the
\* sequence of the signer data and the sequence of the final signature are the
\* sequence of the account snapshot fetched in that same attempt, and the
\* account number of the signer data is that snapshot's; a retried attempt
\* never signs with a snapshot an earlier attempt fetched.
C14_SignsWithSnapshotOfAttempt ==
    \A p \in Callers :
       /\ pc[p] \in {"prepare", "sign", "submit"} =>
             /\ ~acc[p].nil
             /\ acc[p].at = n[p] + 1
             /\ acc[p].at = hist[p].accQueries
       /\ pc[p] = "prepare" => txb[p].nil
       /\ pc[p] = "sign" =>
             /\ ~txb[p].nil
             /\ ~txb[p].signed
             /\ txb[p].placeholder = acc[p].sequence
             /\ txb[p].sequence = acc[p].sequence
       /\ pc[p] = "submit" =>
             /\ txb[p].signed
             /\ txb[p].placeholder = acc[p].sequence
             /\ txb[p].signerSeq = acc[p].sequence
             /\ txb[p].number = acc[p].number
             /\ txb[p].sequence = acc[p].sequence
       /\ ~resp[p].nil =>
             /\ resp[p].hash = TxHash(p, acc[p].sequence)
             /\ acc[p].at = hist[p].pipelineRuns

\* Second attempt, after a mismatch: signed with the sequence fetched anew.
C14_Witness ==
    \E p \in Callers :
       /\ pc[p] = "submit"
       /\ n[p] = 1
       /\ hist[p].seqFails = 1
       /\ hist[p].fetched = {InitSeq, InitSeq + 1}
       /\ acc[p].at = 2
       /\ acc[p].sequence = InitSeq + 1
       /\ txb[p].signed
       /\ txb[p].signerSeq = InitSeq + 1
       /\ txb[p].number = AccountNumberOf(SignerAddr)

\* Call p lost a race for a sequence value: the node refused at least one of
\* its broadcasts with a sequence mismatch, every one of its attempts got as
\* far as the broadcast, and the loop of BroadcastTxSync is over.
LostRace(p) ==
    /\ PastLoop(p)
    /\ hist[p].seqFails >= 1
    /\ hist[p].broadcasts = hist[p].attempts
    /\ ErrClass(err[p]) \in {"ok", "seq"}
    /\ \E q \in Callers \ {p} : \E h \in node.cache : h[1] = q

\* C15 as claimed: of two concurrent BroadcastTxSync calls of one signer with
\* budgets of at least 2, the one refused with a sequence mismatch re-fetches
\* the account and has its transaction accepted on a later attempt within its
\* budget.
C15_LoserIsAccepted ==
    \A p \in Callers :
       LostRace(p) =>
          /\ syncRet[p].err = NoErr
          /\ ~syncRet[p].resp.nil
          /\ syncRet[p].resp.code = CodeTypeOK

\* C15 amended: the one refused with a sequence mismatch re-fetches the
\* account in every attempt; its transaction is accepted only in an attempt
\* that fetched a newer sequence than the one it was refused with, that is
\* after a commit, and when no attempt within the budget does, it has used
\* the whole budget and BroadcastTxSync returns the sequence-mismatch error.
C15_LoserNeedsCommitWithinBudget ==
    \A p \in Callers :
       LostRace(p) =>
          /\ hist[p].accQueries = hist[p].attempts
          /\ hist[p].attempts <= cfg.txBroadcastRetryAttempts
          /\ ErrClass(err[p]) = "ok" =>
                /\ syncRet[p].err = NoErr
                /\ syncRet[p].resp.code = CodeTypeOK
                /\ syncRet[p].resp.hash = TxHash(p, acc[p].sequence)
                /\ syncRet[p].resp.hash \in node.cache
                /\ \E s \in hist[p].fetched : s < acc[p].sequence
                /\ node.committed # {}
          /\ ErrClass(err[p]) = "seq" =>
                /\ hist[p].attempts = cfg.txBroadcastRetryAttempts
                /\ hist[p].seqFails = cfg.txBroadcastRetryAttempts
                /\ syncRet[p].resp.nil
                /\ syncRet[p].err =
                      Wrap("tx sync broadcast failed after retries", err[p])

\* The loser is accepted in its second attempt, the winner's transaction
\* having been committed in between.
C15_Witness ==
    \E p \in Callers : \E q \in Callers \ {p} :
       /\ LostRace(p)
       /\ hist[p].attempts = 2
       /\ hist[p].seqFails = 1
       /\ hist[p].fetched = {InitSeq, InitSeq + 1}
       /\ syncRet[p].err = NoErr
       /\ syncRet[p].resp.hash = TxHash(p, InitSeq + 1)
       /\ TxHash(q, InitSeq) \in node.committed

\* C16: broadcastTxSync validates every message (after the authz wrapping)
\* before any network call: when some message is invalid, the attempt issues
\* no account query, no simulation and no broadcast, it is not retried, and
\* the error it returns names the index of the first invalid message.
C16_ValidationBeforeNetwork ==
    \A p \in Callers :
       /\ (\E i \in 1..Len(PipelineMsgs) : ~PipelineMsgs[i].valid) =>
             /\ hist[p].accQueries = 0
             /\ hist[p].simulations = 0
             /\ hist[p].broadcasts = 0
             /\ hist[p].signs = 0
             /\ hist[p].pipelineRuns <= 1
             /\ (PastLoop(p) /\ keyPresent /\ err[p].step # "key") =>
                   err[p].step = "validate"
       /\ err[p].step = "validate" =>
             /\ LET i == err[p].detail[1]
                IN /\ i \in 0..(Len(PipelineMsgs) - 1)
                   /\ ~PipelineMsgs[i + 1].valid
                   /\ \A j \in 1..i : PipelineMsgs[j].valid
             /\ acc[p].nil /\ txb[p].nil /\ resp[p].nil
             /\ pc[p] = "retry" \/ PastLoop(p)
             /\ PastLoop(p) =>
                   /\ hist[p].attempts = 1
                   /\ syncRet[p].resp.nil
                   /\ syncRet[p].err =
                         Wrap("tx sync broadcast failed after retries", err[p])

\* Two messages, the second one invalid, budget left.
C16_Witness ==
    \E p \in Callers :
       /\ PastLoop(p)
       /\ cfg.txBroadcastRetryAttempts >= 2
       /\ ~cfg.txAuthzGranterAddr
       /\ Len(msgs) = 2
       /\ msgs[1].valid
       /\ err[p].step = "validate"
       /\ err[p].detail = <<1>>
       /\ hist[p].attempts = 1
       /\ hist[p].accQueries = 0

C17_WitnessKey ==
    \E p \in Callers :
       /\ pc[p] = "done"
       /\ cfg.txBroadcastRetryAttempts >= 2
       /\ hist[p].attempts = 1
       /\ IsNotFound(err[p])
       /\ err[p].step = "key"

\* C18: MsgFromAddr returns the authz granter address when one is
\* configured; otherwise the address of the configured key, and a non-nil
\* error when that key is not in the keyring.
C18_MsgFromAddrContract ==
    \A p \in Callers :
       from[p].called =>
          /\ cfg.txAuthzGranterAddr =>
                (from[p].addr = GranterAddr /\ from[p].err = NoErr)
          /\ (~cfg.txAuthzGranterAddr /\ from[p].err = NoErr) =>
                from[p].addr = SignerAddr
          /\ (~cfg.txAuthzGranterAddr /\ ~keyPresent) => from[p].err # NoErr

\* C19: with an authz granter configured, broadcastTxSync goes on, before
\* validation and encoding, with exactly one execute-as-granter message over
\* the caller's messages whose grantee is the address of the signing key; the
\* account queried is always that of the signing key's address, never the
\* granter's.
C19_AuthzWrapsAndFetchesSigner ==
    \A p \in Callers :
       /\ hist[p].addrs \subseteq {SignerAddr}
       /\ ~acc[p].nil =>
             /\ acc[p].address = SignerAddr
             /\ acc[p].number = AccountNumberOf(SignerAddr)
       /\ cfg.txAuthzGranterAddr =>
             /\ err[p].step = "validate" =>
                   /\ err[p].detail = <<0>>
                   /\ \E i \in 1..Len(msgs) : ~msgs[i].valid
             /\ ~txb[p].nil =>
                   /\ Len(txb[p].msgs) = 1
                   /\ txb[p].msgs[1].exec
                   /\ txb[p].msgs[1].grantee = SignerAddr
                   /\ txb[p].msgs[1].inner = msgs
       /\ ~cfg.txAuthzGranterAddr =>
             (~txb[p].nil => txb[p].msgs = msgs)

C19_Witness ==
    \E p \in Callers :
       /\ cfg.txAuthzGranterAddr
       /\ pc[p] = "submit"
       /\ Len(msgs) = 2
       /\ Len(txb[p].msgs) = 1
       /\ txb[p].msgs[1].grantee = SignerAddr
       /\ txb[p].msgs[1].inner = msgs
       /\ txb[p].signed
       /\ hist[p].addrs = {SignerAddr}
       /\ acc[p].address = SignerAddr

\* C20: with simulate-and-execute on, an attempt whose gas simulation fails
\* ends with the simulation error before signing: nothing is signed or
\* broadcast in it, and no transaction is ever built with the static gas limit
\* as a fallback; with simulate-and-execute off the estimator is never called.
C20_SimulationFailureIsFatal ==
    \A p \in Callers :
       /\ ~cfg.txSimulateAndExecute =>
             /\ hist[p].simulations = 0
             /\ err[p].step # "prepare"
             /\ ~txb[p].nil => txb[p].gas = "static"
       /\ cfg.txSimulateAndExecute =>
             /\ ~txb[p].nil => txb[p].gas = "simulated"
             /\ hist[p].signs <= hist[p].simulations
             /\ hist[p].broadcasts <= hist[p].signs
       /\ (err[p].step = "prepare" /\ (pc[p] = "retry" \/ PastLoop(p))) =>
             /\ err[p].chain = <<"failed to prepare tx",
                                 "failed to simulate tx for gas estimation",
                                 "failed to simulate tx">>
             /\ txb[p].nil
             /\ resp[p].nil
             /\ hist[p].signs < hist[p].simulations
             /\ hist[p].broadcasts < hist[p].simulations
             /\ (PastLoop(p) /\ ErrClass(err[p]) # "dup") =>
                   syncRet[p].err =
                      Wrap("tx sync broadcast failed after retries", err[p])

C20_Witness ==
    \E p \in Callers :
       /\ PastLoop(p)
       /\ cfg.txSimulateAndExecute
       /\ cfg.txBroadcastRetryAttempts >= 2
       /\ err[p].step = "prepare"
       /\ ErrClass(err[p]) = "other"
       /\ hist[p].attempts = 1
       /\ hist[p].simulations = 1
       /\ hist[p].signs = 0
       /\ hist[p].broadcasts = 0
       /\ syncRet[p].err # NoErr

\* C25: whenever BroadcastTxSync returns a nil error it returns a non-nil
\* outcome too, on every path, the absorbed mempool-duplicate path included,
\* and BroadcastTxBlock never reads the code or the hash of a nil outcome.
C25_NilErrorHasOutcome ==
    \A p \in Callers :
       /\ (PastLoop(p) /\ syncRet[p].err = NoErr) => ~syncRet[p].resp.nil
       /\ pc[p] # "panic"

\* C26: the retry decision of BroadcastTxSync reads the Go error of the
\* attempt only: an attempt the node answered with an outcome and a nil
\* transport error ends the loop, and BroadcastTxSync returns that outcome
\* with a nil error, whatever the mempool code and log of the outcome are.
C26_OutcomeEndsLoop ==
    [][\A p \in Callers :
          (pc[p] = "retry" /\ ~resp[p].nil /\ pc'[p] # pc[p]) =>
             /\ err[p] = NoErr
             /\ pc'[p] = "synced"
             /\ n'[p] = n[p]
             /\ syncRet'[p] = [resp |-> resp[p], err |-> NoErr]]_vars

C26_Witness ==
    \E p \in Callers :
       /\ PastLoop(p)
       /\ cfg.txBroadcastRetryAttempts >= 2
       /\ hist[p].attempts = 1
       /\ ~syncRet[p].resp.nil
       /\ syncRet[p].resp.code = 32
       /\ syncRet[p].resp.log = "incorrect account sequence"
       /\ syncRet[p].err = NoErr

\* C21: when a transaction is signed, the gas limit set on it is the
\* adjusted simulated limit if simulation is enabled and the fixed
\* configured limit otherwise; its fee is calculateFees of the gas prices and
\* that gas limit if the gas prices are non-zero, and the fixed configured
\* fee if they are not.
C21_FeeAtSigning ==
    \A p \in Callers :
       (~txb[p].nil /\ txb[p].signed) =>
          /\ txb[p].gasLimit =
                IF cfg.txSimulateAndExecute
                THEN (cfg.txGasAdjustment * node.gasUsed) \div AdjScale
                ELSE cfg.txGas
          /\ IF \E i \in 1..Len(cfg.txGasPrices) : cfg.txGasPrices[i].amount # 0
             THEN /\ ~calculateFees(cfg.txGasPrices, txb[p].gasLimit).panics
                  /\ txb[p].fee =
                        calculateFees(cfg.txGasPrices, txb[p].gasLimit).coins
             ELSE txb[p].fee = cfg.txFees

C21_Witness ==
    \E p \in Callers :
       /\ txb[p].signed
       /\ cfg.txSimulateAndExecute
       /\ ~IsZero(cfg.txGasPrices)
       /\ txb[p].gasLimit # cfg.txGas
       /\ txb[p].fee # calculateFees(cfg.txGasPrices, cfg.txGas).coins
       /\ txb[p].fee # cfg.txFees
       /\ \E i \in 1..Len(txb[p].fee) : txb[p].fee[i].amount > 0

\* C22: the fee calculateFees returns holds no entry for a denom whose gas
\* price is 0, for every list of gas prices and every gas limit.
C22_NoEntryForZeroPrice ==
    (calc.applied >= 1 /\ ~calc.fees.panics) =>
       \A i \in 1..Len(calc.gasPrices) :
          calc.gasPrices[i].amount = 0 =>
             \A j \in 1..Len(calc.fees.coins) :
                calc.fees.coins[j].denom # calc.gasPrices[i].denom

\* C23: for fixed non-negative gas prices calculateFees is monotonic
\* non-decreasing in the gas limit over the whole range of the unsigned gas
\* word: of two gas limits the smaller one gives, denom by denom, an amount
\* that is not larger.
C23_MonotonicInGasLimit ==
    (calc.applied = 2 /\ calc.prevLimit <= calc.gasLimit) =>
       /\ ~calc.prevFees.panics
       /\ ~calc.fees.panics
       /\ \A i \in 1..Len(calc.gasPrices) :
             calc.prevFees.coins[i].amount <= calc.fees.coins[i].amount

\* C24: a TxConfig that Validate accepts has a gas adjustment greater than
\* 0, and the gas limit derived from a simulated gas usage other than 0 is
\* never 0.
C24_AcceptedAdjustmentIsPositive ==
    (calc.validated /\ calc.verdict = "") =>
       /\ calc.conf.GasAdjustment > 0
       /\ (calc.simulated /\ calc.gasUsed > 0) => calc.adjusted > 0

\* A call of op returns in this step (Stop, when it closes the channel, does
\* not: it waits, or it panics).
Returned(op) ==
    /\ sched'.ops = sched.ops + 1
    /\ sched'.last.op = op
    /\ sched'.mu = sched.mu
    /\ sched'.panicked = sched.panicked

\* The goroutines of runWorker that have not finished.
Running(s) == { w \in Names : s.g[w].pc \in {"run", "wait", "exit"} }

\* C27: Start on a running scheduler and RegisterWorkers on a running
\* scheduler return an error and leave the registered workers and the worker
\* goroutines as they are; RegisterWorkers on a stopped scheduler returns an
\* error for a list holding a name that is registered already, and the
\* workers registered before the call stay registered.
C27_RunningSchedulerRefuses ==
    [][/\ ((Returned("Start") \/ Returned("RegisterWorkers"))
            /\ sched.isRunning) =>
             /\ sched'.last.res = "scheduler is already running"
             /\ sched'.workers = sched.workers
             /\ sched'.g = sched.g
             /\ sched'.starts = sched.starts
             /\ sched'.wg = sched.wg
             /\ sched'.isRunning
       /\ (Returned("RegisterWorkers") /\ ~sched.isRunning) =>
             LET ws == sched'.last.arg
             IN /\ sched.workers \subseteq sched'.workers
                /\ sched'.g = sched.g
                /\ (\E i \in 1..Len(ws) : ws[i] \in sched.workers) =>
                      sched'.last.res = "duplicate worker"
                /\ sched'.last.res = "" =>
                      sched'.workers = sched.workers
                                         \cup { ws[i] : i \in 1..Len(ws) }]_vars

C27_Witness ==
    /\ sched.isRunning
    /\ sched.workers = Names
    /\ Running(sched) = Names
    /\ sched.last.op = "RegisterWorkers"
    /\ sched.last.res = "scheduler is already running"
    /\ sched.epoch = 1

\* C28: Stop on a running scheduler returns only when every goroutine
\* that was started has finished, OnExit called once for each of them; and
\* while a Stop holds the mutex no other call changes isRunning or the worker
\* map.
C28_StopWaitsForWorkers ==
    [][/\ (sched.mu /\ ~sched'.mu) =>
             /\ Running(sched') = {}
             /\ \A w \in Names : sched'.exits[w] = sched'.starts[w]
             /\ sched'.wg = 0
             /\ sched'.last.res = "stopped"
             /\ ~sched'.isRunning
       /\ (sched.mu /\ sched'.mu) =>
             /\ sched'.isRunning = sched.isRunning
             /\ sched'.workers = sched.workers]_vars

C28_Witness ==
    /\ sched.last.op = "Stop"
    /\ sched.last.res = "stopped"
    /\ ~sched.isRunning
    /\ sched.workers = Names
    /\ \A w \in Names : sched.starts[w] = 1 /\ sched.exits[w] = 1
    /\ sched.g["b"].reason = "signal"
    /\ sched.g["b"].cycles >= 2

\* C29: a Scheduler can be restarted. After Start, Stop, Start the workers
\* run at their interval until the next Stop, so a goroutine leaves its wait
\* on the stop signal only if a Stop was called since the last Start, and no
\* Stop panics.
C29_RestartRunsUntilStop ==
    /\ ~sched.panicked
    /\ \A w \in Names :
          sched.g[w].reason = "signal" => sched.closedInEpoch

\* C30: a worker with MaxRuns m > 0 runs at most m cycles, a cycle being at
\* most RetryAttempts invocations of Run, then it exits and OnExit is called;
\* a worker with MaxRuns 0 leaves the loop only on the stop signal during
\* its wait or on a failed cycle for which OnError returns true.
C30_MaxRunsBoundsCycles ==
    \A w \in Names :
       LET gr == sched.g[w]
           cf == sched.conf[w]
       IN /\ cf.maxRuns > 0 => gr.cycles <= cf.maxRuns
          /\ gr.invocations <= cf.retryAttempts
          /\ gr.reason = "maxruns" => cf.maxRuns > 0 /\ gr.cycles = cf.maxRuns
          /\ gr.reason = "error" => cf.stopOnError
          /\ gr.reason = "signal" => sched.closed
          /\ gr.pc = "gone" => sched.exits[w] >= 1 /\ gr.reason # ""

\* C30, amended: a worker with MaxRuns m > 0 runs at most m cycles, then it
\* exits and OnExit is called; a cycle is at most RetryAttempts invocations
\* of Run when RetryAttempts is greater than 0, and with RetryAttempts 0 Run
\* is invoked until it succeeds, so that no cycle fails; a worker with
\* MaxRuns 0 leaves the loop only on the stop signal during its wait or on a
\* failed cycle for which OnError returns true.
C30_MaxRunsBoundsCyclesRetrying ==
    \A w \in Names :
       LET gr == sched.g[w]
           cf == sched.conf[w]
       IN /\ cf.maxRuns > 0 => gr.cycles <= cf.maxRuns
          /\ cf.retryAttempts > 0 => gr.invocations <= cf.retryAttempts
          /\ cf.retryAttempts = 0 => gr.reason # "error"
          /\ gr.reason = "maxruns" => cf.maxRuns > 0 /\ gr.cycles = cf.maxRuns
          /\ gr.reason = "error" => cf.stopOnError
          /\ gr.reason = "signal" => sched.closed
          /\ gr.pc = "gone" => sched.exits[w] >= 1 /\ gr.reason # ""

C30_Witness ==
    LET gr == sched.g["a"]
        cf == sched.conf["a"]
    IN /\ cf.maxRuns = MaxMaxRuns
       /\ cf.retryAttempts = 2
       /\ gr.pc = "gone"
       /\ gr.reason = "maxruns"
       /\ gr.cycles = MaxMaxRuns
       /\ gr.invocations = 2
       /\ sched.exits["a"] = 1
       /\ ~sched.closed

====
